---- MODULE Spec2Model ----
(***************************************************************************)
(* Model of the WebTransport session connection object, src/conn.go:       *)
(* the two accept queues with their capacity-1 notification channels, the  *)
(* control-stream reader goroutine (handleConn), and the Accept* / Open* / *)
(* Close methods as called by concurrent goroutines.                       *)
(*                                                                         *)
(* Atomicity.  Each action is one step of one goroutine between two        *)
(* synchronisation points.  The body of addStream and the dequeue of       *)
(* AcceptStream run under acceptMx (acceptUniMx for the unidirectional     *)
(* queue), so each is one action; the channel operations, the isClosed     *)
(* test and the select of AcceptStream are separate actions because other  *)
(* goroutines can run between them.                                        *)
(***************************************************************************)
EXTENDS Naturals, Sequences, FiniteSets, TLC

\* ------------------------------------------------------------- bounds
\* Streams the dispatch layer pushes to one accept queue.
MaxPush == 2

\* Reads of the control stream that return data before one fails.
MaxRead == 2

\* ---------------------------------------------------------- constants
\* make(chan struct{}, 1): capacity of acceptChan and of acceptUniChan.
ChanCap == 1

\* A nil error, a nil stream and a nil header.
NilErr == <<>>
NilStream == [kind |-> "nil", raw |-> <<>>, hdr |-> <<>>]
NilHdr == <<>>

\* ctx.Err() of a cancelled per-call context.
Canceled == <<"context canceled">>

\* Errors the control stream's Read can return (io.EOF is a clean end).
ReadErrors == {"EOF", "reset"}

\* Error of the underlying transport's OpenStream... calls.
TransportErr == <<"transport error">>

\* Goroutines calling AcceptStream, AcceptUniStream and the Open* methods.
AcceptCallers == {"a1", "a2"}
AcceptUniCallers == {"u1", "u2"}
OpenCallers == {"o1", "o2", "o3", "o4"}
Callers == AcceptCallers \cup AcceptUniCallers \cup OpenCallers

\* The method each opening goroutine calls.
OpenMethod(p) ==
    CASE p = "o1" -> "OpenStream"
      [] p = "o2" -> "OpenStreamSync"
      [] p = "o3" -> "OpenUniStream"
      [] p = "o4" -> "OpenUniStreamSync"
      [] OTHER -> "none"

\* The methods that take a per-call context.
SyncMethods == {"OpenStreamSync", "OpenUniStreamSync"}
HasCtx(p) == p \notin OpenCallers \/ OpenMethod(p) \in SyncMethods

\* The callers present in one run of the program, with the number of streams
\* the dispatch layer delivers to each queue and whether Close is called.
Traffic ==
    { [callers |-> {"a1", "a2"}, push |-> MaxPush, pushUni |-> 0, reads |-> 0, close |-> FALSE],
      [callers |-> {"u1", "u2"}, push |-> 0, pushUni |-> MaxPush, reads |-> 0, close |-> FALSE],
      [callers |-> {"a1", "u1"}, push |-> 1, pushUni |-> 1, reads |-> 0, close |-> TRUE],
      [callers |-> {"a1"}, push |-> 1, pushUni |-> 0, reads |-> MaxRead, close |-> FALSE],
      [callers |-> {"o1", "o2"}, push |-> 0, pushUni |-> 0, reads |-> 0, close |-> TRUE],
      [callers |-> {"o3", "o4"}, push |-> 0, pushUni |-> 0, reads |-> 0, close |-> FALSE] }

\* Session identifiers handed to newConn: one on each side of every length
\* boundary of the variable-length integer encoding that fits in 32 bits.
SessionIDs == {17, 63, 64, 16383, 16384, 1073741823, 1073741824}

\* <<webTransportFrameType, webTransportUniStreamType>>.  The two constants
\* are declared outside conn.go; all conn.go does is encode them, so they are
\* inputs here: a pair encoded on two bytes each and a pair encoded on one.
TagPairs == {<<65, 84>>, <<7, 9>>}

\* Only the Open* methods read the headers, so only the workloads that open
\* streams range over the identifiers and tags.
Configs(t) ==
    IF t.callers \subseteq OpenCallers
      THEN SessionIDs \X TagPairs
      ELSE {<<17, <<65, 84>>>>}

Workloads ==
    UNION { { [callers |-> t.callers, push |-> t.push, pushUni |-> t.pushUni,
               reads |-> t.reads, close |-> t.close, sessionID |-> c[1],
               frameType |-> c[2][1], uniStreamType |-> c[2][2]] : c \in Configs(t) }
            : t \in Traffic }

VARIABLES
    load,           \* the workload of this run
    closeErr,       \* c.closeErr
    closed,         \* c.closed has been closed
    ctxDone,        \* c.ctx has been cancelled
    monPc,          \* position of the goroutine running handleConn
    acceptQueue,    \* c.acceptQueue
    acceptChan,     \* number of values buffered in c.acceptChan
    acceptUniQueue, \* c.acceptUniQueue
    acceptUniChan,  \* number of values buffered in c.acceptUniChan
    nAdded,         \* addStream calls made
    nUniAdded,      \* addUniStream calls made
    accepted,       \* streams removed from acceptQueue, in removal order
    acceptedUni,    \* streams removed from acceptUniQueue, in removal order
    pc,             \* position of each caller inside its call
    cancel,         \* the caller's own ctx.Done() is closed
    ret,            \* the (value, error) pair each call returned
    blockedAtFail,  \* callers that were blocked when the control read failed
    woken,          \* notifications each accept call has received
    nRead,          \* Reads of the control stream that returned without error
    closeReturned   \* a Close() call has returned

vars == <<load, closeErr, closed, ctxDone, monPc, acceptQueue, acceptChan,
          acceptUniQueue, acceptUniChan, nAdded, nUniAdded, accepted, acceptedUni,
          pc, cancel, ret, blockedAtFail, woken, nRead, closeReturned>>

connVars == <<closeErr, closed, ctxDone, monPc, blockedAtFail>>
bidiVars == <<acceptQueue, acceptChan, nAdded, accepted>>
uniVars == <<acceptUniQueue, acceptUniChan, nUniAdded, acceptedUni>>
callVars == <<pc, cancel, ret>>

\* ------------------------------------------------------------ helpers
\* The n-th raw stream handed to addStream / addUniStream.
BidiStream(n) == <<"bidi", n>>
UniStream(n) == <<"uni", n>>

\* fmt.Errorf("WebTransport session closed: %w", err)
WrapCloseErr(err) == <<"WebTransport session closed", err>>

\* The headers precomputed by newConn.
sessionID == load.sessionID
webTransportFrameType == load.frameType
webTransportUniStreamType == load.uniStreamType

\* quicvarint.Write: the value big-endian on 1, 2, 4 or 8 bytes, the two top
\* bits of the first byte giving the length.
Varint(i) ==
    IF i < 64 THEN <<i>>
    ELSE IF i < 16384 THEN <<64 + (i \div 256), i % 256>>
    ELSE IF i < 1073741824
      THEN <<128 + (i \div 16777216), (i \div 65536) % 256, (i \div 256) % 256, i % 256>>
    ELSE <<192, 0, 0, 0,
           i \div 16777216, (i \div 65536) % 256, (i \div 256) % 256, i % 256>>

\* The byte slices newConn precomputes; no method of Conn writes them again.
uniStreamHdr == Varint(webTransportUniStreamType) \o Varint(sessionID)
streamHdr == Varint(webTransportFrameType) \o Varint(sessionID)

\* newStream(str, hdr), newReceiveStream(str), newSendStream(str, hdr)
newStream(str, hdr) == [kind |-> "Stream", raw |-> str, hdr |-> hdr]
newReceiveStream(str) == [kind |-> "ReceiveStream", raw |-> str, hdr |-> NilHdr]
newSendStream(str, hdr) == [kind |-> "SendStream", raw |-> str, hdr |-> hdr]

\* A call's return pair.
Return(str, err) == [str |-> str, err |-> err]
NoReturn == Return(NilStream, NilErr)

\* Mutant: the channel takes every notification it is sent.
TrySend_NoCap(ch) == ch + 1

\* select { case ch <- struct{}{}: default: } on a buffered channel.
TrySend(ch) == IF ch < ChanCap THEN ch + 1 ELSE ch

\* c.isClosed()
isClosed == closed

\* The call of p returns r.
Finish(p, r) ==
    /\ pc' = [pc EXCEPT ![p] = "done"]
    /\ ret' = [ret EXCEPT ![p] = r]
    /\ UNCHANGED cancel

Goto(p, where) ==
    /\ pc' = [pc EXCEPT ![p] = where]
    /\ UNCHANGED <<ret, cancel>>

\* --------------------------------------------------------------- Init
Init ==
    /\ load \in Workloads
    /\ closeErr = NilErr
    /\ closed = FALSE
    /\ ctxDone = FALSE
    /\ monPc = "read"
    /\ acceptQueue = <<>>
    /\ acceptChan = 0
    /\ acceptUniQueue = <<>>
    /\ acceptUniChan = 0
    /\ nAdded = 0
    /\ nUniAdded = 0
    /\ accepted = <<>>
    /\ acceptedUni = <<>>
    /\ pc = [p \in Callers |-> "idle"]
    /\ cancel = [p \in Callers |-> FALSE]
    /\ ret = [p \in Callers |-> NoReturn]
    /\ blockedAtFail = {}
    /\ woken = [p \in Callers |-> 0]
    /\ nRead = 0
    /\ closeReturned = FALSE

\* --------------------------------------------------------- handleConn
\* Mutant: a Read that returns data closes the session.
HandleConnReadOk_Closes ==
    /\ monPc = "read"
    /\ nRead < load.reads
    /\ nRead' = nRead + 1
    /\ closed' = TRUE
    /\ UNCHANGED <<load, woken, closeErr, ctxDone, monPc, blockedAtFail,
                   bidiVars, uniVars, callVars, closeReturned>>

\* A Read on the control stream returns data, which is discarded.
HandleConnReadOk ==
    /\ monPc = "read"
    /\ nRead < load.reads
    /\ nRead' = nRead + 1
    /\ UNCHANGED <<load, woken, connVars, bidiVars, uniVars, callVars, closeReturned>>

\* Mutant: the loop of handleConn lacks its return, so a later Read fails too.
HandleConnReadErr_NoReturn ==
    /\ monPc \in {"read", "done"}
    /\ \E err \in ReadErrors : closeErr' = WrapCloseErr(err)
    /\ monPc' = "close"
    /\ blockedAtFail' = {p \in Callers :
                           \/ pc[p] = "wait"
                           \/ pc[p] = "open" /\ HasCtx(p)}
    /\ UNCHANGED <<load, nRead, woken, closed, ctxDone, bidiVars, uniVars, callVars, closeReturned>>

\* Mutant: the failing Read sets the closed flag before the error is recorded.
HandleConnReadErr_CloseFirst ==
    /\ monPc = "read"
    /\ closed' = TRUE
    /\ monPc' = "close"
    /\ blockedAtFail' = {p \in Callers :
                           \/ pc[p] = "wait"
                           \/ pc[p] = "open" /\ HasCtx(p)}
    /\ UNCHANGED <<load, nRead, woken, closeErr, ctxDone, bidiVars, uniVars, callVars,
                   closeReturned>>

\* A Read returns an error: c.closeErr is assigned.
HandleConnReadErr ==
    /\ monPc = "read"
    /\ \E err \in ReadErrors : closeErr' = WrapCloseErr(err)
    /\ monPc' = "close"
    /\ blockedAtFail' = {p \in Callers :
                           \/ pc[p] = "wait"
                           \/ pc[p] = "open" /\ HasCtx(p)}
    /\ UNCHANGED <<load, nRead, woken, closed, ctxDone, bidiVars, uniVars, callVars, closeReturned>>

\* close(c.closed); return
HandleConnClose ==
    /\ monPc = "close"
    /\ closed' = TRUE
    /\ monPc' = "cancel"
    /\ UNCHANGED <<load, nRead, woken, closeErr, ctxDone, blockedAtFail,
                   bidiVars, uniVars, callVars, closeReturned>>

\* defer ctxCancel() of the goroutine started by newConn.
CtxCancel ==
    /\ monPc = "cancel"
    /\ ctxDone' = TRUE
    /\ monPc' = "done"
    /\ UNCHANGED <<load, nRead, woken, closeErr, closed, blockedAtFail,
                   bidiVars, uniVars, callVars, closeReturned>>

\* ------------------------------------------------ addStream, addUniStream
\* Mutant: the notification is sent with a blocking send.
addStream_BlockingSend ==
    /\ nAdded < load.push
    /\ acceptChan < ChanCap
    /\ acceptQueue' = Append(acceptQueue, BidiStream(nAdded + 1))
    /\ acceptChan' = acceptChan + 1
    /\ nAdded' = nAdded + 1
    /\ UNCHANGED <<load, nRead, woken, connVars, accepted, uniVars, callVars, closeReturned>>

addStream ==
    /\ nAdded < load.push
    /\ acceptQueue' = Append(acceptQueue, BidiStream(nAdded + 1))
    /\ acceptChan' = TrySend(acceptChan)
    /\ nAdded' = nAdded + 1
    /\ UNCHANGED <<load, nRead, woken, connVars, accepted, uniVars, callVars, closeReturned>>

\* Mutant: the push on the unidirectional queue notifies the other channel.
addUniStream_WrongChan ==
    /\ nUniAdded < load.pushUni
    /\ acceptUniQueue' = Append(acceptUniQueue, UniStream(nUniAdded + 1))
    /\ acceptChan' = TrySend(acceptChan)
    /\ nUniAdded' = nUniAdded + 1
    /\ UNCHANGED <<load, nRead, woken, connVars, acceptedUni, acceptUniChan, acceptQueue, nAdded,
                   accepted, callVars, closeReturned>>

addUniStream ==
    /\ nUniAdded < load.pushUni
    /\ acceptUniQueue' = Append(acceptUniQueue, UniStream(nUniAdded + 1))
    /\ acceptUniChan' = TrySend(acceptUniChan)
    /\ nUniAdded' = nUniAdded + 1
    /\ UNCHANGED <<load, nRead, woken, connVars, acceptedUni, bidiVars, callVars, closeReturned>>

\* ------------------------------------------------------- AcceptStream
\* Mutant: AcceptStream without its isClosed test.
AcceptStreamEnter_NoClosedTest(p) ==
    /\ pc[p] \in {"idle", "retry"}
    /\ Goto(p, "deq")
    /\ UNCHANGED <<load, nRead, woken, connVars, bidiVars, uniVars, closeReturned>>

\* Entry of AcceptStream (first call or the recursive call): isClosed test.
AcceptStreamEnter(p) ==
    /\ pc[p] \in {"idle", "retry"}
    /\ IF isClosed
         THEN Finish(p, Return(NilStream, closeErr))
         ELSE Goto(p, "deq")
    /\ UNCHANGED <<load, nRead, woken, connVars, bidiVars, uniVars, closeReturned>>

\* Mutant: the head is returned but not removed from the queue.
AcceptStreamDequeue_NoRemove(p) ==
    /\ pc[p] = "deq"
    /\ IF Len(acceptQueue) > 0
         THEN /\ accepted' = Append(accepted, Head(acceptQueue))
              /\ Finish(p, Return(newStream(Head(acceptQueue), NilHdr), NilErr))
         ELSE /\ Goto(p, "wait")
              /\ UNCHANGED accepted
    /\ UNCHANGED <<load, nRead, woken, connVars, acceptQueue, acceptChan, nAdded, uniVars, closeReturned>>

\* Mutant: the call waits for a notification before it looks at the queue.
AcceptStreamDequeue_WaitFirst(p) ==
    /\ pc[p] = "deq"
    /\ IF Len(acceptQueue) > 0 /\ acceptChan = 0
         THEN /\ acceptQueue' = Tail(acceptQueue)
              /\ accepted' = Append(accepted, Head(acceptQueue))
              /\ Finish(p, Return(newStream(Head(acceptQueue), NilHdr), NilErr))
         ELSE /\ Goto(p, "wait")
              /\ UNCHANGED <<acceptQueue, accepted>>
    /\ UNCHANGED <<load, nRead, woken, connVars, acceptChan, nAdded, uniVars, closeReturned>>

\* Mutant: a call that was notified returns whatever the queue gave it, a nil
\* stream included, instead of waiting again.
AcceptStreamDequeue_TrustWake(p) ==
    /\ pc[p] = "deq"
    /\ IF Len(acceptQueue) > 0
         THEN /\ acceptQueue' = Tail(acceptQueue)
              /\ accepted' = Append(accepted, Head(acceptQueue))
              /\ Finish(p, Return(newStream(Head(acceptQueue), NilHdr), NilErr))
         ELSE /\ IF woken[p] > 0 THEN Finish(p, NoReturn) ELSE Goto(p, "wait")
              /\ UNCHANGED <<acceptQueue, accepted>>
    /\ UNCHANGED <<load, nRead, woken, connVars, acceptChan, nAdded, uniVars, closeReturned>>

\* Mutant: the dequeue attempt gives way to a cancellation that has fired.
AcceptStreamDequeue_CheckCancel(p) ==
    /\ pc[p] = "deq"
    /\ IF cancel[p]
         THEN /\ Finish(p, Return(NilStream, Canceled))
              /\ UNCHANGED <<acceptQueue, accepted>>
         ELSE IF Len(acceptQueue) > 0
           THEN /\ acceptQueue' = Tail(acceptQueue)
                /\ accepted' = Append(accepted, Head(acceptQueue))
                /\ Finish(p, Return(newStream(Head(acceptQueue), NilHdr), NilErr))
           ELSE /\ Goto(p, "wait")
                /\ UNCHANGED <<acceptQueue, accepted>>
    /\ UNCHANGED <<load, nRead, woken, connVars, acceptChan, nAdded, uniVars, closeReturned>>

\* The dequeue attempt under acceptMx.
AcceptStreamDequeue(p) ==
    /\ pc[p] = "deq"
    /\ IF Len(acceptQueue) > 0
         THEN /\ acceptQueue' = Tail(acceptQueue)
              /\ accepted' = Append(accepted, Head(acceptQueue))
              /\ Finish(p, Return(newStream(Head(acceptQueue), NilHdr), NilErr))
         ELSE /\ Goto(p, "wait")
              /\ UNCHANGED <<acceptQueue, accepted>>
    /\ UNCHANGED <<load, nRead, woken, connVars, acceptChan, nAdded, uniVars, closeReturned>>

\* Mutant: the session-closed case returns c.ctx.Err() instead of c.closeErr.
AcceptStreamCtxDone_CtxErr(p) ==
    /\ pc[p] = "wait"
    /\ ctxDone
    /\ Finish(p, Return(NilStream, Canceled))
    /\ UNCHANGED <<load, nRead, woken, connVars, bidiVars, uniVars, closeReturned>>

\* select: case <-c.ctx.Done()
AcceptStreamCtxDone(p) ==
    /\ pc[p] = "wait"
    /\ ctxDone
    /\ Finish(p, Return(NilStream, closeErr))
    /\ UNCHANGED <<load, nRead, woken, connVars, bidiVars, uniVars, closeReturned>>

\* Mutant: one cancel signal shared by all callers of AcceptStream.
AcceptStreamCancelled_Shared(p) ==
    /\ pc[p] = "wait"
    /\ \E q \in AcceptCallers : cancel[q]
    /\ Finish(p, Return(NilStream, Canceled))
    /\ UNCHANGED <<load, nRead, woken, connVars, bidiVars, uniVars, closeReturned>>

\* Mutant: a cancelled call drains the pending notification on its way out.
AcceptStreamCancelled_Drain(p) ==
    /\ pc[p] = "wait"
    /\ cancel[p]
    /\ acceptChan' = 0
    /\ Finish(p, Return(NilStream, Canceled))
    /\ UNCHANGED <<load, nRead, woken, connVars, acceptQueue, nAdded, accepted, uniVars, closeReturned>>

\* select: case <-ctx.Done()
AcceptStreamCancelled(p) ==
    /\ pc[p] = "wait"
    /\ cancel[p]
    /\ Finish(p, Return(NilStream, Canceled))
    /\ UNCHANGED <<load, nRead, woken, connVars, bidiVars, uniVars, closeReturned>>

\* select: case <-c.acceptChan, then the recursive call
AcceptStreamNotified(p) ==
    /\ pc[p] = "wait"
    /\ acceptChan > 0
    /\ acceptChan' = acceptChan - 1
    /\ Goto(p, "retry")
    /\ woken' = [woken EXCEPT ![p] = @ + 1]
    /\ UNCHANGED <<load, nRead, connVars, acceptQueue, nAdded, accepted, uniVars, closeReturned>>

AcceptStream(p) ==
    \/ AcceptStreamEnter(p)
    \/ AcceptStreamDequeue(p)
    \/ AcceptStreamCtxDone(p)
    \/ AcceptStreamCancelled(p)
    \/ AcceptStreamNotified(p)

\* ---------------------------------------------------- AcceptUniStream
AcceptUniStreamEnter(p) ==
    /\ pc[p] \in {"idle", "retry"}
    /\ IF isClosed
         THEN Finish(p, Return(NilStream, closeErr))
         ELSE Goto(p, "deq")
    /\ UNCHANGED <<load, nRead, woken, connVars, bidiVars, uniVars, closeReturned>>

AcceptUniStreamDequeue(p) ==
    /\ pc[p] = "deq"
    /\ IF Len(acceptUniQueue) > 0
         THEN /\ acceptUniQueue' = Tail(acceptUniQueue)
              /\ acceptedUni' = Append(acceptedUni, Head(acceptUniQueue))
              /\ Finish(p, Return(newReceiveStream(Head(acceptUniQueue)), NilErr))
         ELSE /\ Goto(p, "wait")
              /\ UNCHANGED <<acceptUniQueue, acceptedUni>>
    /\ UNCHANGED <<load, nRead, woken, connVars, acceptUniChan, nUniAdded, bidiVars, closeReturned>>

AcceptUniStreamCtxDone(p) ==
    /\ pc[p] = "wait"
    /\ ctxDone
    /\ Finish(p, Return(NilStream, closeErr))
    /\ UNCHANGED <<load, nRead, woken, connVars, bidiVars, uniVars, closeReturned>>

AcceptUniStreamCancelled(p) ==
    /\ pc[p] = "wait"
    /\ cancel[p]
    /\ Finish(p, Return(NilStream, Canceled))
    /\ UNCHANGED <<load, nRead, woken, connVars, bidiVars, uniVars, closeReturned>>

AcceptUniStreamNotified(p) ==
    /\ pc[p] = "wait"
    /\ acceptUniChan > 0
    /\ acceptUniChan' = acceptUniChan - 1
    /\ Goto(p, "retry")
    /\ woken' = [woken EXCEPT ![p] = @ + 1]
    /\ UNCHANGED <<load, nRead, connVars, acceptUniQueue, nUniAdded, acceptedUni, bidiVars,
                   closeReturned>>

AcceptUniStream(p) ==
    \/ AcceptUniStreamEnter(p)
    \/ AcceptUniStreamDequeue(p)
    \/ AcceptUniStreamCtxDone(p)
    \/ AcceptUniStreamCancelled(p)
    \/ AcceptUniStreamNotified(p)

\* ------------------------------------- OpenStream ... OpenUniStreamSync
\* The header and wrapper an Open* method gives the stream it opened.
\* Mutant: every opened stream is given the bidirectional header.
OpenedStream_OneHeader(p) ==
    IF OpenMethod(p) \in {"OpenStream", "OpenStreamSync"}
      THEN newStream(<<"out", p>>, streamHdr)
      ELSE newSendStream(<<"out", p>>, streamHdr)

OpenedStream(p) ==
    IF OpenMethod(p) \in {"OpenStream", "OpenStreamSync"}
      THEN newStream(<<"out", p>>, streamHdr)
      ELSE newSendStream(<<"out", p>>, uniStreamHdr)

\* Entry of an Open* method: isClosed test, then the call into qconn.
OpenEnter(p) ==
    /\ pc[p] = "idle"
    /\ IF isClosed
         THEN Finish(p, Return(NilStream, closeErr))
         ELSE Goto(p, "open")
    /\ UNCHANGED <<load, nRead, woken, connVars, bidiVars, uniVars, closeReturned>>

\* qconn.Open...() returns a stream.
OpenOk(p) ==
    /\ pc[p] = "open"
    /\ Finish(p, Return(OpenedStream(p), NilErr))
    /\ UNCHANGED <<load, nRead, woken, connVars, bidiVars, uniVars, closeReturned>>

\* Mutant: the transport's error is wrapped as a session-closed error.
OpenErr_Wrapped(p) ==
    /\ pc[p] = "open"
    /\ Finish(p, Return(NilStream, WrapCloseErr(TransportErr)))
    /\ UNCHANGED <<load, nRead, woken, connVars, bidiVars, uniVars, closeReturned>>

\* qconn.Open...() returns an error of the transport.
OpenErr(p) ==
    /\ pc[p] = "open"
    /\ Finish(p, Return(NilStream, TransportErr))
    /\ UNCHANGED <<load, nRead, woken, connVars, bidiVars, uniVars, closeReturned>>

\* qconn.Open...Sync(ctx) returns because ctx was cancelled.
OpenCancelled(p) ==
    /\ pc[p] = "open"
    /\ HasCtx(p)
    /\ cancel[p]
    /\ Finish(p, Return(NilStream, Canceled))
    /\ UNCHANGED <<load, nRead, woken, connVars, bidiVars, uniVars, closeReturned>>

Open(p) ==
    \/ OpenEnter(p)
    \/ OpenOk(p)
    \/ OpenErr(p)
    \/ OpenCancelled(p)

\* -------------------------------------------------------------- Close
Close ==
    /\ load.close
    /\ ~closeReturned
    /\ closeReturned' = TRUE
    /\ UNCHANGED <<load, nRead, woken, connVars, bidiVars, uniVars, callVars>>

\* ------------------------------------------- the callers' own contexts
\* The context a caller passed (or will pass) to its call is cancelled.
Cancel(p) ==
    /\ HasCtx(p)
    /\ pc[p] # "done"
    /\ ~cancel[p]
    /\ cancel' = [cancel EXCEPT ![p] = TRUE]
    /\ UNCHANGED <<load, nRead, woken, connVars, bidiVars, uniVars, pc, ret, closeReturned>>

\* --------------------------------------------------------------- Next
AcceptingCallers == load.callers \cap AcceptCallers
AcceptingUniCallers == load.callers \cap AcceptUniCallers
OpeningCallers == load.callers \cap OpenCallers

Next ==
    \/ HandleConnReadOk
    \/ HandleConnReadErr
    \/ HandleConnClose
    \/ CtxCancel
    \/ addStream
    \/ addUniStream
    \/ \E p \in AcceptingCallers : AcceptStreamEnter(p)
    \/ \E p \in AcceptingCallers : AcceptStreamDequeue(p)
    \/ \E p \in AcceptingCallers : AcceptStreamCtxDone(p)
    \/ \E p \in AcceptingCallers : AcceptStreamCancelled(p)
    \/ \E p \in AcceptingCallers : AcceptStreamNotified(p)
    \/ \E p \in AcceptingUniCallers : AcceptUniStreamEnter(p)
    \/ \E p \in AcceptingUniCallers : AcceptUniStreamDequeue(p)
    \/ \E p \in AcceptingUniCallers : AcceptUniStreamCtxDone(p)
    \/ \E p \in AcceptingUniCallers : AcceptUniStreamCancelled(p)
    \/ \E p \in AcceptingUniCallers : AcceptUniStreamNotified(p)
    \/ \E p \in OpeningCallers : OpenEnter(p)
    \/ \E p \in OpeningCallers : OpenOk(p)
    \/ \E p \in OpeningCallers : OpenErr(p)
    \/ \E p \in OpeningCallers : OpenCancelled(p)
    \/ \E p \in load.callers : Cancel(p)
    \/ Close

Spec == Init /\ [][Next]_vars

\* A goroutine that can run does run: the reader goroutine after a failed
\* Read, and every accept call that has been made.  Whether a Read fails, a
\* stream arrives, a context is cancelled or a call is made is up to the
\* environment.
Fairness ==
    /\ WF_vars(HandleConnClose)
    /\ WF_vars(CtxCancel)
    /\ \A p \in AcceptCallers : WF_vars(pc[p] # "idle" /\ AcceptStream(p))
    /\ \A p \in AcceptUniCallers : WF_vars(pc[p] # "idle" /\ AcceptUniStream(p))

FairSpec == Spec /\ Fairness

\* ============================================================== claims
AllAcceptCallers == AcceptCallers \cup AcceptUniCallers

\* The accept callers whose call returned the raw stream str.
ReturnedBy(str) == {p \in AllAcceptCallers : pc[p] = "done" /\ ret[p].str.raw = str}

\* The raw streams pushed so far, in push order.
Pushed == [i \in 1..nAdded |-> BidiStream(i)]
PushedUni == [i \in 1..nUniAdded |-> UniStream(i)]

\* C1: for each accept queue, the streams dequeued so far (in dequeue order)
\* followed by the streams still queued are exactly the streams pushed so far
\* in push order; each dequeued stream was returned by exactly one accept
\* call, and a queued stream by none.
C1_AcceptedIsPrefixOfPushed ==
    /\ accepted \o acceptQueue = Pushed
    /\ acceptedUni \o acceptUniQueue = PushedUni
    /\ \A i \in 1..Len(accepted) : Cardinality(ReturnedBy(accepted[i])) = 1
    /\ \A i \in 1..Len(acceptedUni) : Cardinality(ReturnedBy(acceptedUni[i])) = 1
    /\ \A i \in 1..Len(acceptQueue) : ReturnedBy(acceptQueue[i]) = {}
    /\ \A i \in 1..Len(acceptUniQueue) : ReturnedBy(acceptUniQueue[i]) = {}

\* Two pushes raced with two accept calls: the second caller got the first
\* stream and the first caller the second.
C1_Witness ==
    /\ accepted = <<BidiStream(1), BidiStream(2)>>
    /\ ret["a2"].str.raw = BidiStream(1)
    /\ ret["a1"].str.raw = BidiStream(2)

\* No step of the accept callers in cs is enabled: each has returned or is
\* blocked in its select with nothing to receive.
Quiescent(cs, ch) ==
    \A p \in cs : \/ pc[p] = "done"
                  \/ pc[p] = "wait" /\ ch = 0 /\ ~cancel[p] /\ ~ctxDone

\* C2: with as many streams pushed to a queue as accept calls made on it, the
\* session open and no call cancelled, once the calls can take no further
\* step every one of them has returned a stream.
C2_EveryCallGetsAStream ==
    /\ ( /\ AcceptingCallers # {}
         /\ nAdded = Cardinality(AcceptingCallers)
         /\ monPc = "read"
         /\ \A p \in AcceptingCallers : ~cancel[p]
         /\ Quiescent(AcceptingCallers, acceptChan) )
       => \A p \in AcceptingCallers : pc[p] = "done" /\ ret[p].str # NilStream
    /\ ( /\ AcceptingUniCallers # {}
         /\ nUniAdded = Cardinality(AcceptingUniCallers)
         /\ monPc = "read"
         /\ \A p \in AcceptingUniCallers : ~cancel[p]
         /\ Quiescent(AcceptingUniCallers, acceptUniChan) )
       => \A p \in AcceptingUniCallers : pc[p] = "done" /\ ret[p].str # NilStream

\* The call of p returned the session's terminal error and no stream.
ReturnedCloseErr(p) ==
    pc[p] = "done" /\ closeErr # NilErr /\ ret[p] = Return(NilStream, closeErr)

\* The call of p returned its own cancellation error and no stream.
ReturnedCanceled(p) == pc[p] = "done" /\ ret[p] = Return(NilStream, Canceled)

\* C3 as stated: an accept call that was blocked on its empty queue when the
\* control-stream read failed returns only the session's terminal error.
C3_BlockedAcceptReturnsCloseErr ==
    \A p \in blockedAtFail \cap AllAcceptCallers : pc[p] = "done" => ReturnedCloseErr(p)

\* A step of accept caller p taken while it waits (or re-enters after a wake)
\* on a session whose closed flag is set: it is woken, or it returns the
\* terminal error, or, its own cancel signal having fired, the cancellation
\* error.
ClosedWaitStep(p) ==
    (closed /\ pc[p] \in {"wait", "retry"} /\ pc'[p] # pc[p])
      => \/ pc[p] = "wait" /\ pc'[p] = "retry"
         \/ ReturnedCloseErr(p)'
         \/ cancel[p] /\ ReturnedCanceled(p)'

\* C3 (amended): every accept call blocked when the control-stream read
\* failed eventually returns; a call still waiting once the closed flag is
\* set returns the terminal error (non-nil, no stream), or the cancellation
\* error if its own cancel signal has fired.
C3_BlockedAcceptsResolve ==
    /\ [][\A p \in AllAcceptCallers : ClosedWaitStep(p)]_vars
    /\ \A p \in AllAcceptCallers : (p \in blockedAtFail) ~> (pc[p] = "done")

\* Calls blocked on both queues when the read failed, neither of them ever
\* cancelled, have both returned the terminal error.
C3_Witness ==
    /\ blockedAtFail = {"a1", "u1"}
    /\ ReturnedCloseErr("a1")
    /\ ReturnedCloseErr("u1")
    /\ ~cancel["a1"] /\ ~cancel["u1"]

\* C4: an OpenStreamSync / OpenUniStreamSync call that was blocked in the
\* transport when the control-stream read failed, and whose own cancel signal
\* has not fired, returns the session's terminal error.
C4_BlockedOpenReturnsCloseErr ==
    \A p \in blockedAtFail \cap OpenCallers :
        (pc[p] = "done" /\ ~cancel[p]) => ReturnedCloseErr(p)

\* A step in which caller p enters a call on a closed session.
EnterClosedStep(p) ==
    (closed /\ pc[p] = "idle" /\ pc'[p] # "idle")
      => /\ ReturnedCloseErr(p)'
         /\ UNCHANGED <<acceptQueue, acceptChan, accepted,
                         acceptUniQueue, acceptUniChan, acceptedUni>>

\* C5: a call (Accept* or Open*) made on a closed session returns in its first
\* step the recorded terminal error and no stream, whatever the queues hold:
\* it never reaches the dequeue, the wait or the transport, and leaves both
\* queues and both notification channels as they were.
C5_CallOnClosedFails == [][\A p \in Callers : EnterClosedStep(p)]_vars

\* The one stream pushed is still queued with its notification unread, the
\* lifetime context is not yet cancelled, and the accept call has returned the
\* terminal error: it was made after the closed flag was set.
C5_Witness ==
    /\ load.push = 1 /\ nAdded = 1
    /\ acceptQueue = <<BidiStream(1)>> /\ acceptChan = 1
    /\ closed /\ ~ctxDone
    /\ ReturnedCloseErr("a1")

\* C6: once a Close() call has returned, the session is Closed and its
\* terminal error is recorded.
C6_CloseClosesSession == closeReturned => (closed /\ closeErr # NilErr)

\* An accept call returns the cancellation error only if its own cancel
\* signal has fired.
CanceledOnlyByOwnSignal ==
    \A p \in AllAcceptCallers : (pc[p] = "done" /\ ret[p].err = Canceled) => cancel[p]

\* Callers a and b are both blocked on the queue, the cancel signal of a has
\* fired and that of b has not, and the first stream has just been pushed.
FirstPushAfterCancel(a, b, queue, ch, first) ==
    /\ a # b
    /\ pc[a] = "wait" /\ pc[b] = "wait"
    /\ cancel[a] /\ ~cancel[b]
    /\ queue = <<first>> /\ ch = 1
    /\ monPc = "read"

\* Caller b is the only accept call still pending on the queue, some other
\* call has returned its cancellation error, and the first stream is queued
\* with its notification pending.
AloneAfterCancel(b, cs, queue, ch, first) ==
    /\ b \in cs
    /\ pc[b] = "wait" /\ ~cancel[b]
    /\ \A q \in cs \ {b} : pc[q] = "done"
    /\ \E a \in cs \ {b} : ReturnedCanceled(a)
    /\ queue # <<>> /\ Head(queue) = first /\ ch = 1
    /\ monPc = "read"

\* The uncancelled caller b has the stream, or the scenario has ended (its own
\* cancel signal fired, or the control-stream read failed).
GotStream(b, first) ==
    \/ pc[b] = "done" /\ ret[b].str.raw = first
    \/ cancel[b]
    \/ monPc # "read"

\* C7 as stated: a call never returns the cancellation error unless its own
\* cancel signal fired, and of two calls blocked on an empty queue, one of
\* them cancelled before the first push, the uncancelled one eventually
\* returns the stream pushed afterwards.
C7_UncancelledCallGetsStream ==
    /\ []CanceledOnlyByOwnSignal
    /\ \A a, b \in AcceptCallers :
         FirstPushAfterCancel(a, b, acceptQueue, acceptChan, BidiStream(1))
           ~> GotStream(b, BidiStream(1))
    /\ \A a, b \in AcceptUniCallers :
         FirstPushAfterCancel(a, b, acceptUniQueue, acceptUniChan, UniStream(1))
           ~> GotStream(b, UniStream(1))

\* C7 (amended): a call never returns the cancellation error unless its own
\* cancel signal fired; the stream pushed after the cancellation is eventually
\* returned by one of the two calls (the cancelled call, if it has not yet
\* returned, may take it), and by the uncancelled call whenever the cancelled
\* call has already returned its cancellation error.
C7_CancelLeavesOtherCallAlone ==
    /\ []CanceledOnlyByOwnSignal
    /\ \A a, b \in AcceptCallers :
         FirstPushAfterCancel(a, b, acceptQueue, acceptChan, BidiStream(1))
           ~> (ReturnedBy(BidiStream(1)) # {} \/ cancel[b] \/ monPc # "read")
    /\ \A a, b \in AcceptUniCallers :
         FirstPushAfterCancel(a, b, acceptUniQueue, acceptUniChan, UniStream(1))
           ~> (ReturnedBy(UniStream(1)) # {} \/ cancel[b] \/ monPc # "read")
    /\ \A b \in AcceptCallers :
         AloneAfterCancel(b, AcceptingCallers, acceptQueue, acceptChan, BidiStream(1))
           ~> GotStream(b, BidiStream(1))
    /\ \A b \in AcceptUniCallers :
         AloneAfterCancel(b, AcceptingUniCallers, acceptUniQueue, acceptUniChan,
                          UniStream(1))
           ~> GotStream(b, UniStream(1))

\* One call returned its cancellation error; the other, never cancelled,
\* consumed the notification of the only push and returned that stream.
C7_Witness ==
    /\ ReturnedCanceled("a1")
    /\ ~cancel["a2"]
    /\ pc["a2"] = "done" /\ ret["a2"].str.raw = BidiStream(1)
    /\ nAdded = 1 /\ acceptChan = 0
    /\ monPc = "read"

\* The step in which accept caller p returns the cancellation error.
CancelReturnStep(p) ==
    (pc[p] # "done" /\ pc'[p] = "done" /\ ret'[p].err = Canceled)
      => /\ ret'[p].str = NilStream
         /\ UNCHANGED <<acceptQueue, acceptChan, acceptUniQueue, acceptUniChan>>
         /\ UNCHANGED <<accepted, acceptedUni>>
         /\ \A i \in 1..Len(accepted) : ReturnedBy(accepted[i])' # {}
         /\ \A i \in 1..Len(acceptedUni) : ReturnedBy(acceptedUni[i])' # {}

\* C8: the step in which an accept call returns the cancellation error returns
\* no stream and leaves both queues and both notification channels unchanged,
\* and every stream removed from a queue so far was returned by a call (so
\* the cancelled call removed none).
C8_CancelHasNoSideEffect == [][\A p \in AllAcceptCallers : CancelReturnStep(p)]_vars

\* A call returned the cancellation error while a pushed stream and its
\* notification stayed in the queue for another call.
C8_Witness ==
    /\ ReturnedCanceled("a1")
    /\ acceptQueue = <<BidiStream(1)>> /\ acceptChan = 1
    /\ pc["a2"] = "idle"

\* A step of accept caller p at the entry or at the dequeue attempt of a call
\* on an open session whose queue holds a stream.
DirectDequeueStep(p, queue, wrapped) ==
    /\ (pc[p] = "idle" /\ ~closed /\ pc'[p] # "idle") => pc'[p] = "deq"
    /\ (pc[p] = "deq" /\ pc'[p] # "deq" /\ queue # <<>>)
         => /\ pc'[p] = "done"
            /\ ret'[p] = Return(wrapped, NilErr)
            /\ queue' = Tail(queue)

\* C9: a queued stream stays queued until an accept call removes it (pushes
\* only append, whatever the notification channel holds), and an accept call
\* on an open session that finds its queue non-empty at the dequeue attempt
\* returns the head at once, without waiting, whether or not a notification
\* is pending.
C9_QueuedStreamIsDelivered ==
    [][ /\ \A p \in AcceptCallers :
             DirectDequeueStep(p, acceptQueue, newStream(Head(acceptQueue), NilHdr))
        /\ \A p \in AcceptUniCallers :
             DirectDequeueStep(p, acceptUniQueue, newReceiveStream(Head(acceptUniQueue)))
        /\ acceptQueue' # acceptQueue =>
             \/ acceptQueue' = Append(acceptQueue, BidiStream(nAdded + 1))
             \/ acceptQueue' = Tail(acceptQueue) /\ accepted' = Append(accepted, Head(acceptQueue))
        /\ acceptUniQueue' # acceptUniQueue =>
             \/ acceptUniQueue' = Append(acceptUniQueue, UniStream(nUniAdded + 1))
             \/ acceptUniQueue' = Tail(acceptUniQueue)
                  /\ acceptedUni' = Append(acceptedUni, Head(acceptUniQueue))
      ]_vars

\* The only push was made with no call blocked, and the call made later
\* returned the stream without ever consuming the notification.
C9_Witness ==
    /\ load.push = 1 /\ nAdded = 1 /\ acceptChan = 1
    /\ pc["a1"] = "done" /\ ret["a1"] = Return(newStream(BidiStream(1), NilHdr), NilErr)

\* C10: once set, the closed flag stays set and the terminal error recorded
\* with it never changes; the flag is set by the reader goroutine's one
\* close step; the terminal error is written once; and the lifetime context,
\* once cancelled, stays cancelled.
C10_ClosedIsTerminal ==
    [][ /\ closed => (closed' /\ closeErr' = closeErr)
        /\ closeErr # NilErr => closeErr' = closeErr
        /\ closed' # closed => (monPc = "close" /\ monPc' = "cancel")
        /\ ctxDone => ctxDone'
        /\ ctxDone' # ctxDone => (monPc = "cancel" /\ monPc' = "done")
        /\ monPc = "done" => monPc' = "done"
      ]_vars

\* The session is closed, its lifetime context cancelled, and a call made
\* since has returned the terminal error.
C10_Witness ==
    /\ closed /\ ctxDone /\ monPc = "done"
    /\ ReturnedCloseErr("o1")

\* C11: while the dispatch layer has a stream to submit, addStream and
\* addUniStream can always take their step (session open or closed, callers
\* blocked or not, notification pending or not); the step appends the stream
\* at the tail of its own queue and leaves exactly one notification pending,
\* and no channel ever holds more than one.
C11_SubmitNeverBlocks ==
    /\ [](nAdded < load.push => ENABLED addStream)
    /\ [](nUniAdded < load.pushUni => ENABLED addUniStream)
    /\ [](acceptChan <= 1 /\ acceptUniChan <= 1)
    /\ [][ /\ nAdded' # nAdded =>
                /\ nAdded' = nAdded + 1
                /\ acceptQueue' = Append(acceptQueue, BidiStream(nAdded'))
                /\ acceptChan' = 1
           /\ nUniAdded' # nUniAdded =>
                /\ nUniAdded' = nUniAdded + 1
                /\ acceptUniQueue' = Append(acceptUniQueue, UniStream(nUniAdded'))
                /\ acceptUniChan' = 1
         ]_vars

\* A second stream was submitted to a closed session while a caller was
\* blocked and the notification of the first was still unread.
C11_Witness ==
    /\ closed
    /\ nAdded = 2 /\ Len(acceptQueue) = 2 /\ acceptChan = 1
    /\ \E p \in AcceptCallers : pc[p] = "wait"

\* What a peer reads back from a header, as quicvarint.Read does: the two top
\* bits of the first byte give the length, the remaining bits and bytes the
\* value, big-endian.
VarintLen(b) == IF b < 64 THEN 1 ELSE IF b < 128 THEN 2 ELSE IF b < 192 THEN 4 ELSE 8

RECURSIVE BigEndian(_)
BigEndian(bs) ==
    IF bs = <<>> THEN 0
    ELSE BigEndian(SubSeq(bs, 1, Len(bs) - 1)) * 256 + bs[Len(bs)]

ReadVarint(bs) ==
    LET n == VarintLen(bs[1])
    IN  [val |-> BigEndian(<<bs[1] % 64>> \o SubSeq(bs, 2, n)),
         rest |-> SubSeq(bs, n + 1, Len(bs))]

\* hdr is bytes, and reads back as exactly the two integers tag and id.
IsPrefixFor(hdr, tag, id) ==
    /\ hdr = Varint(tag) \o Varint(id)
    /\ \A i \in 1..Len(hdr) : hdr[i] \in 0..255
    /\ LET first == ReadVarint(hdr)
           second == ReadVarint(first.rest)
       IN  /\ first.val = tag
           /\ second.val = id
           /\ second.rest = <<>>

HasStream(p) == pc[p] = "done" /\ ret[p].str # NilStream

\* C12: on a session with identifier N, a stream returned by OpenStream or
\* OpenStreamSync carries varint(webTransportFrameType) || varint(N), one
\* returned by OpenUniStream or OpenUniStreamSync carries
\* varint(webTransportUniStreamType) || varint(N); two streams opened in the
\* same direction carry the same bytes, the two headers never change, and a
\* stream returned by an accept call carries no header.
C12_OpenedStreamsCarryThePrefix ==
    /\ [](\A p \in OpeningCallers : HasStream(p) =>
            IF OpenMethod(p) \in {"OpenStream", "OpenStreamSync"}
              THEN IsPrefixFor(ret[p].str.hdr, webTransportFrameType, sessionID)
              ELSE IsPrefixFor(ret[p].str.hdr, webTransportUniStreamType, sessionID))
    /\ [](\A p, q \in OpeningCallers :
            (HasStream(p) /\ HasStream(q) /\ ret[p].str.kind = ret[q].str.kind)
                => ret[p].str.hdr = ret[q].str.hdr)
    /\ [](\A p \in AcceptingCallers \cup AcceptingUniCallers :
            HasStream(p) => ret[p].str.hdr = NilHdr)
    /\ [][streamHdr' = streamHdr /\ uniStreamHdr' = uniStreamHdr]_vars

\* OpenStream and OpenStreamSync have both returned a stream on a session
\* whose identifier takes the eight-byte encoding.
C12_Witness ==
    /\ sessionID = 1073741824
    /\ webTransportFrameType = 65
    /\ HasStream("o1") /\ HasStream("o2")
    /\ Len(ret["o1"].str.hdr) = 10

\* The call of p found the session open, asked the transport for a stream and
\* returns without one.
TransportFailStep(p) ==
    /\ pc[p] = "open"
    /\ pc'[p] = "done"
    /\ ret'[p].str = NilStream

\* C13: an Open* call that found the session open and whose transport call
\* failed returns no stream and exactly the error the transport gave (its own
\* error, or the caller's cancellation for the ...Sync methods), and the
\* step changes neither the open/closed state, nor the terminal error, nor
\* either accept queue, nor either notification channel.
C13_TransportErrorIsReturnedAsIs ==
    [][\A p \in OpeningCallers : TransportFailStep(p) =>
          /\ ret'[p].err \in {TransportErr} \cup
                               (IF HasCtx(p) /\ cancel[p] THEN {Canceled} ELSE {})
          /\ UNCHANGED <<closeErr, closed, ctxDone, monPc>>
          /\ UNCHANGED <<acceptQueue, acceptChan, acceptUniQueue, acceptUniChan>>
      ]_vars

\* OpenStream has returned the transport's error on a session that is still
\* open.
C13_Witness ==
    /\ pc["o1"] = "done"
    /\ ret["o1"] = Return(NilStream, TransportErr)
    /\ ~closed /\ closeErr = NilErr

\* Notifications received so far by the calls of cs.
RECURSIVE Consumed(_)
Consumed(cs) ==
    IF cs = {} THEN 0
    ELSE LET p == CHOOSE q \in cs : TRUE IN woken[p] + Consumed(cs \ {p})

\* C14: neither notification channel ever holds more than one notification,
\* and on each queue the notifications received by accept calls, together
\* with the one that may be pending, never outnumber the pushes made.
C14_AtMostOneWakePerPush ==
    /\ acceptChan <= 1
    /\ acceptUniChan <= 1
    /\ Consumed(AcceptCallers) + acceptChan <= nAdded
    /\ Consumed(AcceptUniCallers) + acceptUniChan <= nUniAdded

\* Two pushes were made while two calls were blocked; one call was woken, no
\* notification is pending and the other call is still blocked.
C14_Witness ==
    /\ nAdded = 2
    /\ woken["a1"] = 1 /\ woken["a2"] = 0
    /\ acceptChan = 0
    /\ pc["a2"] = "wait"
    /\ blockedAtFail = {} /\ monPc = "read"

\* What one step of the accept call of p on queue may do: having received a
\* notification it tests the session and, if it is open, attempts the dequeue
\* again; an attempt that finds the queue empty waits and returns nothing; a
\* stream is returned only by the step that removes it from the head.
HintStep(p, queue) ==
    /\ (pc[p] = "wait" /\ woken'[p] # woken[p]) => (pc'[p] = "retry" /\ ret'[p] = ret[p])
    /\ (pc[p] = "retry" /\ ~closed /\ pc'[p] # "retry") => (pc'[p] = "deq" /\ ret'[p] = ret[p])
    /\ (pc[p] = "deq" /\ queue = <<>> /\ pc'[p] # "deq") => (pc'[p] = "wait" /\ ret'[p] = ret[p])
    /\ (ret'[p].str # ret[p].str) =>
          /\ pc[p] = "deq" /\ pc'[p] = "done"
          /\ queue # <<>>
          /\ ret'[p].str.raw = Head(queue)
          /\ queue' = Tail(queue)

\* C15: a notification is only a hint.  A notified call attempts the dequeue
\* again, and if it finds the queue empty on an open session it waits again;
\* an accept call that has returned has returned either a stream or an
\* error, never neither and never both; and the stream a call returns is the
\* one that call removed from the head of its queue.
C15_NotificationIsAHint ==
    /\ [](\A p \in AllAcceptCallers :
            pc[p] = "done" => ((ret[p].str = NilStream) # (ret[p].err = NilErr)))
    /\ [][ /\ \A p \in AcceptCallers : HintStep(p, acceptQueue)
           /\ \A p \in AcceptUniCallers : HintStep(p, acceptUniQueue) ]_vars

\* The call a1 was notified of the only push, found that a2 had already taken
\* the stream, and is waiting again on the open session.
C15_Witness ==
    /\ woken["a1"] = 1 /\ pc["a1"] = "wait"
    /\ nAdded = 1 /\ acceptQueue = <<>> /\ acceptChan = 0
    /\ HasStream("a2") /\ woken["a2"] = 0
    /\ ~closed /\ monPc = "read"

\* Everything that belongs to one queue: its contents, its notification
\* channel, the pushes made on it and the calls made on it.
CallsOf(cs) == [p \in cs |-> <<pc[p], ret[p], woken[p]>>]
BidiSide == <<acceptQueue, acceptChan, nAdded, accepted, CallsOf(AcceptCallers)>>
UniSide == <<acceptUniQueue, acceptUniChan, nUniAdded, acceptedUni, CallsOf(AcceptUniCallers)>>

\* C16: the queues are independent.  acceptQueue only ever holds streams
\* given to addStream and AcceptStream only returns those, acceptUniQueue
\* only streams given to addUniStream and AcceptUniStream only returns
\* those; and no step changes both sides: a push or an accept on one queue
\* leaves the other queue, its notification channel and the calls blocked on
\* it as they were.
C16_QueuesAreIndependent ==
    /\ [](/\ \A i \in 1..Len(acceptQueue) : acceptQueue[i] \in {BidiStream(n) : n \in 1..nAdded}
          /\ \A i \in 1..Len(acceptUniQueue) :
                acceptUniQueue[i] \in {UniStream(n) : n \in 1..nUniAdded}
          /\ \A p \in AcceptCallers : HasStream(p) =>
                ret[p].str \in {newStream(BidiStream(n), NilHdr) : n \in 1..nAdded}
          /\ \A p \in AcceptUniCallers : HasStream(p) =>
                ret[p].str \in {newReceiveStream(UniStream(n)) : n \in 1..nUniAdded})
    /\ [][BidiSide' = BidiSide \/ UniSide' = UniSide]_vars

\* A stream was pushed on the unidirectional queue and accepted from it while
\* a call stayed blocked on the bidirectional queue, never notified.
C16_Witness ==
    /\ pc["a1"] = "wait" /\ woken["a1"] = 0 /\ acceptChan = 0
    /\ nUniAdded = 1 /\ nAdded = 0
    /\ woken["u1"] = 1 /\ ret["u1"] = Return(newReceiveStream(UniStream(1)), NilErr)
    /\ pc["u1"] = "done"

\* C17: a Read that returns data leaves the session open and changes nothing
\* else; the session is open for as long as no Read has failed; the first
\* Read that fails (io.EOF or any other error) records the wrapped error, and
\* the session is then closed; after the failure the goroutine never reads
\* again.
C17_ClosesOnFirstFailedRead ==
    /\ [](monPc = "read" => (~closed /\ ~ctxDone /\ closeErr = NilErr))
    /\ [](monPc \in {"cancel", "done"} => closed)
    /\ [][ /\ nRead' # nRead =>
                /\ monPc = "read" /\ monPc' = "read"
                /\ UNCHANGED <<closeErr, closed, ctxDone, bidiVars, uniVars, callVars>>
           /\ (monPc = "read" /\ monPc' # "read") =>
                /\ monPc' = "close"
                /\ closeErr' \in {WrapCloseErr(err) : err \in ReadErrors}
           /\ closed' # closed => monPc = "close"
           /\ monPc # "read" => (monPc' # "read" /\ nRead' = nRead)
         ]_vars
    /\ (monPc # "read") ~> closed

\* Two Reads returned data, the third returned io.EOF, and the session is
\* closed with that error.
C17_Witness ==
    /\ nRead = 2
    /\ closed
    /\ closeErr = WrapCloseErr("EOF")

\* The call of p returns through the isClosed test or through the lifetime
\* context in its wait, and not through its own cancellation.
TerminalReturnStep(p) ==
    /\ pc[p] \in {"idle", "retry", "wait"}
    /\ pc'[p] = "done"
    /\ ret'[p].err # Canceled

\* C18: closure is published in order.  The error is recorded while the
\* session is still open, the closed flag is set only once the error is
\* there, the lifetime context is cancelled only once the flag is set; so a
\* cancelled context implies the flag and the flag implies a recorded
\* error.  A call that returns through the isClosed test or the lifetime
\* context returns that error, which is not nil.  After a failed Read the
\* lifetime context is eventually cancelled.
C18_ClosureIsPublishedInOrder ==
    /\ [](ctxDone => closed)
    /\ [](closed => closeErr # NilErr)
    /\ [][ /\ closeErr' # closeErr => (~closed /\ ~closed' /\ ~ctxDone')
           /\ closed' # closed => (closeErr # NilErr /\ ~ctxDone /\ ~ctxDone')
           /\ ctxDone' # ctxDone => closed
           /\ \A p \in Callers : TerminalReturnStep(p) =>
                /\ closed
                /\ closeErr # NilErr
                /\ ret'[p] = Return(NilStream, closeErr)
         ]_vars
    /\ (monPc # "read") ~> ctxDone

\* The lifetime context is cancelled; a1, blocked when the Read failed, and
\* a2, which made its call afterwards, both returned the terminal error.
C18_Witness ==
    /\ ctxDone
    /\ "a1" \in blockedAtFail /\ ReturnedCloseErr("a1")
    /\ "a2" \notin blockedAtFail /\ ReturnedCloseErr("a2") /\ woken["a2"] = 0

\* What the accept call of p on queue does with its own cancel signal: before
\* the wait it does not look at it, so with the signal fired an open session
\* still takes it to the dequeue attempt and a non-empty queue still gives it
\* the head; the cancellation error is returned from the wait only.
CancelIgnoredStep(p, queue, wrapped) ==
    /\ (cancel[p] /\ pc[p] \in {"idle", "retry"} /\ ~closed /\ pc'[p] # pc[p])
          => pc'[p] = "deq"
    /\ (cancel[p] /\ pc[p] = "deq" /\ queue # <<>> /\ pc'[p] # "deq")
          => /\ pc'[p] = "done"
             /\ ret'[p] = Return(wrapped, NilErr)
             /\ queue' = Tail(queue)
    /\ (ret'[p].err = Canceled /\ ret[p].err # Canceled)
          => (pc[p] = "wait" /\ cancel[p])

\* C19: an accept call consults its own cancel signal only in the wait.  With
\* the signal already fired, a call on an open session still attempts the
\* dequeue, and if the queue is not empty it removes the head and returns it
\* with a nil error; a blocked call whose signal has fired can still take a
\* notification that is pending; the cancellation error is only ever
\* returned from the wait.
C19_CancelOnlyConsultedInWait ==
    /\ [](\A p \in AcceptingCallers :
            (pc[p] = "wait" /\ cancel[p] /\ acceptChan > 0) => ENABLED AcceptStreamNotified(p))
    /\ [](\A p \in AcceptingUniCallers :
            (pc[p] = "wait" /\ cancel[p] /\ acceptUniChan > 0)
                => ENABLED AcceptUniStreamNotified(p))
    /\ [][ /\ \A p \in AcceptCallers :
                CancelIgnoredStep(p, acceptQueue, newStream(Head(acceptQueue), NilHdr))
           /\ \A p \in AcceptUniCallers :
                CancelIgnoredStep(p, acceptUniQueue, newReceiveStream(Head(acceptUniQueue)))
         ]_vars

\* a1 blocked, was notified of a push, and with its cancel signal fired
\* before its dequeue attempt returned the pushed stream; a2, not cancelled,
\* is blocked.
C19_Witness ==
    /\ cancel["a1"] /\ woken["a1"] = 1
    /\ ret["a1"] = Return(newStream(BidiStream(1), NilHdr), NilErr) /\ pc["a1"] = "done"
    /\ pc["a2"] = "wait" /\ ~cancel["a2"]

====
